---------------------------- MODULE Spec2Model ----------------------------
(***************************************************************************)
(* Ukkonen suffix-tree construction and substring lookup of                *)
(* src/suffix_tree.py.  Indices are the 0-based Python indices of the      *)
(* source; SeqAt converts to the 1-based TLA+ sequence.                    *)
(***************************************************************************)
EXTENDS Integers, Sequences, FiniteSets, TLC

\* ----------------------------------------------------------------- bounds
MaxLen == 6      \* longest input sequence built
NumSyms == 3     \* size of the symbol alphabet
MaxPat == 2      \* longest query pattern
MaxQueryLen == 3 \* longest input sequence of the trees that are queried

Symbols == 1..NumSyms

RECURSIVE SeqsUpTo(_)
SeqsUpTo(n) ==
    IF n = 0 THEN {<<>>}
    ELSE LET shorter == SeqsUpTo(n - 1)
         IN  shorter \cup {Append(s, c) : s \in {t \in shorter : Len(t) = n - 1},
                                           c \in Symbols}

VARIABLES seq, nodes, edges, active, pc, i, last_parent_node, parent_node,
          collided, err, query

vars == <<seq, nodes, edges, active, pc, i, last_parent_node, parent_node,
          collided, err, query>>

\* ------------------------------------------------------------ data types
\* self.N (line 85)
N == Len(seq) - 1

\* Python subscript seq[k]: valid for -len <= k < len, negative k wraps
InRange(k) == k >= -Len(seq) /\ k < Len(seq)
SeqAt(k) == seq[(IF k < 0 THEN k + Len(seq) ELSE k) + 1]

\* Python slice seq[a:b] for 0 <= a (clipped at the end of the sequence)
Slice(s, a, b) ==
    LET hi == IF b > Len(s) THEN Len(s) ELSE b
    IN  IF a >= hi THEN <<>> ELSE SubSeq(s, a + 1, hi)

Node == -1

Edge(first, last, source, dest) ==
    [first_obj_index |-> first, last_obj_index |-> last,
     source_node_index |-> source, dest_node_index |-> dest]

Suffix(source, first, last) ==
    [source_node_index |-> source, first_obj_index |-> first,
     last_obj_index |-> last]

\* the length property of Edge and of Suffix
Length(x) == x.last_obj_index - x.first_obj_index

explicit(s) == s.first_obj_index > s.last_obj_index

implicit(s) == s.last_obj_index >= s.first_obj_index

\* the node list: a function on 0..len-1 holding each node's suffix_node
NumNodes(ns) == Cardinality(DOMAIN ns)

AppendNode(ns) ==
    [n \in 0..NumNodes(ns) |-> IF n = NumNodes(ns) THEN Node ELSE ns[n]]

\* Python subscript nodes[k]: negative k wraps
NodeIdx(ns, k) == IF k < 0 THEN k + NumNodes(ns) ELSE k

\* the mutable parts of the tree threaded through the helpers
Tree(ns, es, col, er) == [nodes |-> ns, edges |-> es, collided |-> col, err |-> er]

\* ------------------------------------------------------- edge table
EdgeKey(edge) == <<edge.source_node_index, SeqAt(edge.first_obj_index)>>

\* _insert_edge (lines 149-150); collided records an insert on a present key
InsertEdge(T, edge) ==
    IF T.err # "None" THEN T
    ELSE IF ~InRange(edge.first_obj_index) THEN [T EXCEPT !.err = "IndexError"]
    ELSE LET key == EdgeKey(edge)
         IN  [T EXCEPT !.edges = [k \in DOMAIN T.edges \cup {key} |->
                                      IF k = key THEN edge ELSE T.edges[k]],
                       !.collided = T.collided \/ key \in DOMAIN T.edges]

\* _remove_edge (lines 152-153)
RemoveEdge(T, edge) ==
    IF T.err # "None" THEN T
    ELSE IF ~InRange(edge.first_obj_index) THEN [T EXCEPT !.err = "IndexError"]
    ELSE LET key == EdgeKey(edge)
         IN  IF key \notin DOMAIN T.edges THEN [T EXCEPT !.err = "KeyError"]
             ELSE [T EXCEPT !.edges = [k \in DOMAIN T.edges \ {key} |-> T.edges[k]]]

\* SplitEdge that forgets to remove the stale entry before inserting
SplitEdge_NoRemove(T, edge, suffix) ==
    LET ns1 == AppendNode(T.nodes)
        e == Edge(edge.first_obj_index, edge.first_obj_index + Length(suffix),
                  suffix.source_node_index, NumNodes(ns1) - 1)
        T1 == InsertEdge([T EXCEPT !.nodes = ns1], e)
        T2 == [T1 EXCEPT !.nodes[e.dest_node_index] = suffix.source_node_index]
        edge2 == [edge EXCEPT !.first_obj_index = @ + Length(suffix) + 1,
                              !.source_node_index = e.dest_node_index]
    IN  [tree |-> InsertEdge(T2, edge2), node |-> e.dest_node_index]

\* SplitEdge that appends a node for each of the two edges it inserts
SplitEdge_NodePerEdge(T, edge, suffix) ==
    LET ns1 == AppendNode(AppendNode(T.nodes))
        e == Edge(edge.first_obj_index, edge.first_obj_index + Length(suffix),
                  suffix.source_node_index, NumNodes(ns1) - 1)
        T1 == InsertEdge(RemoveEdge([T EXCEPT !.nodes = ns1], edge), e)
        T2 == [T1 EXCEPT !.nodes[e.dest_node_index] = suffix.source_node_index]
        edge2 == [edge EXCEPT !.first_obj_index = @ + Length(suffix) + 1,
                              !.source_node_index = e.dest_node_index]
    IN  [tree |-> InsertEdge(T2, edge2), node |-> e.dest_node_index]

\* SplitEdge whose upper edge ends one symbol early
SplitEdge_ShortHead(T, edge, suffix) ==
    LET ns1 == AppendNode(T.nodes)
        e == Edge(edge.first_obj_index, edge.first_obj_index + Length(suffix) - 1,
                  suffix.source_node_index, NumNodes(ns1) - 1)
        T1 == InsertEdge(RemoveEdge([T EXCEPT !.nodes = ns1], edge), e)
        T2 == [T1 EXCEPT !.nodes[e.dest_node_index] = suffix.source_node_index]
        edge2 == [edge EXCEPT !.first_obj_index = @ + Length(suffix) + 1,
                              !.source_node_index = e.dest_node_index]
    IN  [tree |-> InsertEdge(T2, edge2), node |-> e.dest_node_index]

\* _split_edge (lines 155-164)
SplitEdge(T, edge, suffix) ==
    LET ns1 == AppendNode(T.nodes)
        e == Edge(edge.first_obj_index, edge.first_obj_index + Length(suffix),
                  suffix.source_node_index, NumNodes(ns1) - 1)
        T1 == InsertEdge(RemoveEdge([T EXCEPT !.nodes = ns1], edge), e)
        T2 == [T1 EXCEPT !.nodes[e.dest_node_index] = suffix.source_node_index]
        edge2 == [edge EXCEPT !.first_obj_index = @ + Length(suffix) + 1,
                              !.source_node_index = e.dest_node_index]
    IN  [tree |-> InsertEdge(T2, edge2), node |-> e.dest_node_index]

\* ------------------------------------------------------- canonization
\* CanonizeSuffix that descends only when the edge is strictly shorter
RECURSIVE CanonizeSuffix_Strict(_, _)
CanonizeSuffix_Strict(es, suffix) ==
    IF explicit(suffix) THEN [err |-> "None", suffix |-> suffix]
    ELSE IF ~InRange(suffix.first_obj_index)
         THEN [err |-> "IndexError", suffix |-> suffix]
    ELSE LET key == <<suffix.source_node_index, SeqAt(suffix.first_obj_index)>>
         IN  IF key \notin DOMAIN es THEN [err |-> "KeyError", suffix |-> suffix]
             ELSE LET e == es[key]
                  IN  IF Length(e) < Length(suffix)
                      THEN CanonizeSuffix_Strict(es,
                             [suffix EXCEPT
                                !.first_obj_index = @ + Length(e) + 1,
                                !.source_node_index = e.dest_node_index])
                      ELSE [err |-> "None", suffix |-> suffix]

\* _canonize_suffix (lines 166-175)
RECURSIVE CanonizeSuffix(_, _)
CanonizeSuffix(es, suffix) ==
    IF explicit(suffix) THEN [err |-> "None", suffix |-> suffix]
    ELSE IF ~InRange(suffix.first_obj_index)
         THEN [err |-> "IndexError", suffix |-> suffix]
    ELSE LET key == <<suffix.source_node_index, SeqAt(suffix.first_obj_index)>>
         IN  IF key \notin DOMAIN es THEN [err |-> "KeyError", suffix |-> suffix]
             ELSE LET e == es[key]
                  IN  IF Length(e) <= Length(suffix)
                      THEN CanonizeSuffix(es,
                             [suffix EXCEPT
                                !.first_obj_index = @ + Length(e) + 1,
                                !.source_node_index = e.dest_node_index])
                      ELSE [err |-> "None", suffix |-> suffix]


\* ------------------------------------------------------- _add_prefix
\* AlreadyPresent that compares the last matched symbol of the edge, not the
\* one after it
AlreadyPresent_OffByOne(T, act, last_obj_index) ==
    IF ~InRange(last_obj_index)
    THEN [err |-> "IndexError", e |-> Edge(0, 0, 0, 0), present |-> FALSE]
    ELSE IF explicit(act)
    THEN [err |-> "None", e |-> Edge(0, 0, 0, 0),
          present |-> <<act.source_node_index, SeqAt(last_obj_index)>>
                          \in DOMAIN T.edges]
    ELSE IF ~InRange(act.first_obj_index)
         THEN [err |-> "IndexError", e |-> Edge(0, 0, 0, 0), present |-> FALSE]
    ELSE LET key == <<act.source_node_index, SeqAt(act.first_obj_index)>>
         IN  IF key \notin DOMAIN T.edges
             THEN [err |-> "KeyError", e |-> Edge(0, 0, 0, 0), present |-> FALSE]
             ELSE LET e == T.edges[key]
                      k == e.first_obj_index + Length(act)
                  IN  IF ~InRange(k)
                      THEN [err |-> "IndexError", e |-> e, present |-> FALSE]
                      ELSE [err |-> "None", e |-> e,
                            present |-> SeqAt(k) = SeqAt(last_obj_index)]

\* the already-present test of one pass of the extension loop (lines 119-127)
AlreadyPresent(T, act, last_obj_index) ==
    IF ~InRange(last_obj_index)
    THEN [err |-> "IndexError", e |-> Edge(0, 0, 0, 0), present |-> FALSE]
    ELSE IF explicit(act)
    THEN [err |-> "None", e |-> Edge(0, 0, 0, 0),
          present |-> <<act.source_node_index, SeqAt(last_obj_index)>>
                          \in DOMAIN T.edges]
    ELSE IF ~InRange(act.first_obj_index)
         THEN [err |-> "IndexError", e |-> Edge(0, 0, 0, 0), present |-> FALSE]
    ELSE LET key == <<act.source_node_index, SeqAt(act.first_obj_index)>>
         IN  IF key \notin DOMAIN T.edges
             THEN [err |-> "KeyError", e |-> Edge(0, 0, 0, 0), present |-> FALSE]
             ELSE LET e == T.edges[key]
                      k == e.first_obj_index + Length(act) + 1
                  IN  IF ~InRange(k)
                      THEN [err |-> "IndexError", e |-> e, present |-> FALSE]
                      ELSE [err |-> "None", e |-> e,
                            present |-> SeqAt(k) = SeqAt(last_obj_index)]

\* lines 131-133: the new leaf and its edge
NewLeaf(T, last_obj_index, parent) ==
    LET ns1 == AppendNode(T.nodes)
    IN  InsertEdge([T EXCEPT !.nodes = ns1],
                   Edge(last_obj_index, N, parent, NumNodes(ns1) - 1))

\* suffix-link chaining left out
LinkLastParent_Skip(ns, lpn, parent) == ns

\* lines 135-136 and 144-145: suffix-link chaining
LinkLastParent(ns, lpn, parent) ==
    IF lpn > 0 THEN [ns EXCEPT ![lpn] = parent] ELSE ns

\* lines 139-142: move the active point to the next shorter suffix
Advance(ns, act) ==
    IF act.source_node_index = 0
    THEN [err |-> "None",
          suffix |-> [act EXCEPT !.first_obj_index = @ + 1]]
    ELSE IF NodeIdx(ns, act.source_node_index) \notin DOMAIN ns
         THEN [err |-> "IndexError", suffix |-> act]
         ELSE [err |-> "None",
               suffix |-> [act EXCEPT !.source_node_index =
                                 ns[NodeIdx(ns, act.source_node_index)]]]

\* one pass of the while loop that does not break (lines 128-143)
Extend(T, act, last_obj_index, lpn, e) ==
    LET sp == IF explicit(act)
              THEN [tree |-> T, node |-> act.source_node_index]
              ELSE SplitEdge(T, e, act)
        T1 == NewLeaf(sp.tree, last_obj_index, sp.node)
        T2 == [T1 EXCEPT !.nodes = LinkLastParent(T1.nodes, lpn, sp.node)]
        adv == Advance(T2.nodes, act)
        can == IF adv.err # "None" THEN adv
               ELSE CanonizeSuffix(T2.edges, adv.suffix)
        er == IF T2.err # "None" THEN T2.err ELSE can.err
    IN  [tree |-> [T2 EXCEPT !.err = er], active |-> can.suffix,
         parent_node |-> sp.node]

CurTree == Tree(nodes, edges, collided, err)

\* a phase loop that runs until i reaches N instead of over range(len(seq))
BeginPhase_UntilN ==
    /\ pc = "loop"
    /\ i # N
    /\ last_parent_node' = -1
    /\ pc' = "ext"
    /\ UNCHANGED <<seq, nodes, edges, active, i, parent_node, collided, err, query>>

\* line 89-90 and 116: the next phase starts
BeginPhase ==
    /\ pc = "loop"
    /\ i < Len(seq)
    /\ last_parent_node' = -1
    /\ pc' = "ext"
    /\ UNCHANGED <<seq, nodes, edges, active, i, parent_node, collided, err, query>>

\* lines 118-127: the prefix is already in the tree, the loop breaks
ExtensionBreak ==
    /\ pc = "ext"
    /\ LET chk == AlreadyPresent(CurTree, active, i)
       IN  /\ chk.err = "None"
           /\ chk.present
    /\ parent_node' = active.source_node_index
    /\ pc' = "post"
    /\ UNCHANGED <<seq, nodes, edges, active, i, last_parent_node, collided, err, query>>

\* lines 118-143: one extension (split, leaf, link, advance, canonize)
ExtensionAdd ==
    /\ pc = "ext"
    /\ LET chk == AlreadyPresent(CurTree, active, i)
       IN  /\ ~(chk.err = "None" /\ chk.present)
           /\ IF chk.err # "None"
              THEN /\ err' = chk.err
                   /\ pc' = "error"
                   /\ UNCHANGED <<nodes, edges, active, last_parent_node,
                                  parent_node, collided>>
              ELSE LET r == Extend(CurTree, active, i, last_parent_node, chk.e)
                   IN  /\ nodes' = r.tree.nodes
                       /\ edges' = r.tree.edges
                       /\ collided' = r.tree.collided
                       /\ err' = r.tree.err
                       /\ active' = r.active
                       /\ parent_node' = r.parent_node
                       /\ last_parent_node' = r.parent_node
                       /\ pc' = IF r.tree.err # "None" THEN "error" ELSE "ext"
    /\ UNCHANGED <<seq, i, query>>

\* lines 144-147: the phase ends
EndPhase ==
    /\ pc = "post"
    /\ LET ns1 == LinkLastParent(nodes, last_parent_node, parent_node)
           can == CanonizeSuffix(edges,
                     [active EXCEPT !.last_obj_index = @ + 1])
       IN  /\ nodes' = ns1
           /\ active' = can.suffix
           /\ err' = can.err
           /\ pc' = IF can.err # "None" THEN "error" ELSE "loop"
    /\ i' = i + 1
    /\ UNCHANGED <<seq, edges, last_parent_node, parent_node, collided, query>>

\* line 89: the phase loop is exhausted, __init__ returns
Built ==
    /\ pc = "loop"
    /\ i = Len(seq)
    /\ pc' = "done"
    /\ UNCHANGED <<seq, nodes, edges, active, i, last_parent_node, parent_node,
                   collided, err, query>>

NoQuery == [op |-> "none", pat |-> <<>>, exc |-> "None", idx |-> 0, found |-> FALSE]

\* lines 84-88
Init ==
    /\ seq \in SeqsUpTo(MaxLen)
    /\ nodes = [n \in {0} |-> Node]
    /\ edges = [k \in {} |-> Edge(0, 0, 0, 0)]
    /\ active = Suffix(0, 0, -1)
    /\ pc = "loop"
    /\ i = 0
    /\ last_parent_node = -1
    /\ parent_node = -1
    /\ collided = FALSE
    /\ err = "None"
    /\ query = NoQuery

Next == BeginPhase \/ ExtensionBreak \/ ExtensionAdd \/ EndPhase \/ Built

Spec == Init /\ [][Next]_vars


\* ------------------------------------------------------- queries
\* the instance attributes __init__ binds (lines 84-88)
InstanceAttrs == {"seq", "N", "nodes", "edges", "active"}

Min(a, b) == IF a < b THEN a ELSE b

\* lines 189-198, the walk from the root; string is the value of self.string
RECURSIVE FindWalk(_, _, _, _)
FindWalk(substring, string, curr_node, k) ==
    IF <<curr_node, substring[k + 1]>> \notin DOMAIN edges
    THEN [exc |-> "None", idx |-> -1]
    ELSE LET edge == edges[<<curr_node, substring[k + 1]>>]
             ln == Min(Length(edge) + 1, Len(substring) - k)
         IN  IF "string" \notin InstanceAttrs
             THEN [exc |-> "AttributeError", idx |-> 0]
             ELSE IF Slice(substring, k, k + ln) #
                     Slice(string, edge.first_obj_index, edge.first_obj_index + ln)
             THEN [exc |-> "None", idx |-> -1]
             ELSE IF k + Length(edge) + 1 < Len(substring)
             THEN FindWalk(substring, string, edge.dest_node_index,
                           k + Length(edge) + 1)
             ELSE [exc |-> "None",
                   idx |-> edge.first_obj_index - Len(substring) + ln]

\* find_substring without the empty test
FindSubstring_NoEmptyTest(substring) ==
    IF "case_insensitive" \notin InstanceAttrs
    THEN [exc |-> "AttributeError", idx |-> 0]
    ELSE FindWalk(substring, seq, 0, 0)

\* find_substring: the empty test (183-184), then the read of
\* self.case_insensitive (185), an attribute no code of the class binds
FindSubstring(substring) ==
    IF substring = <<>> THEN [exc |-> "None", idx |-> -1]
    ELSE IF "case_insensitive" \notin InstanceAttrs
         THEN [exc |-> "AttributeError", idx |-> 0]
         ELSE FindWalk(substring, seq, 0, 0)

\* has_substring: an exception of find_substring propagates
HasSubstring(substring) ==
    LET r == FindSubstring(substring)
    IN  [exc |-> r.exc, found |-> r.exc = "None" /\ r.idx # -1]

FindSubstringCall ==
    /\ pc = "done"
    /\ \E substring \in SeqsUpTo(MaxPat) :
          LET r == FindSubstring(substring)
          IN  query' = [op |-> "find_substring", pat |-> substring,
                        exc |-> r.exc, idx |-> r.idx, found |-> FALSE]
    /\ UNCHANGED <<seq, nodes, edges, active, pc, i, last_parent_node,
                   parent_node, collided, err>>

HasSubstringCall ==
    /\ pc = "done"
    /\ \E substring \in SeqsUpTo(MaxPat) :
          LET r == HasSubstring(substring)
          IN  query' = [op |-> "has_substring", pat |-> substring,
                        exc |-> r.exc, idx |-> 0, found |-> r.found]
    /\ UNCHANGED <<seq, nodes, edges, active, pc, i, last_parent_node,
                   parent_node, collided, err>>

NextQuery ==
    \/ BeginPhase \/ ExtensionBreak \/ ExtensionAdd \/ EndPhase \/ Built
    \/ FindSubstringCall \/ HasSubstringCall

\* lines 84-88, for the trees that are queried
InitQuery ==
    /\ Init
    /\ Len(seq) <= MaxQueryLen

SpecQuery == InitQuery /\ [][NextQuery]_vars

\* ------------------------------------------------------- tree reading
\* keys of the edges leaving node n
Children(n) == {k \in DOMAIN edges : k[1] = n}

IsLeaf(n) == Children(n) = {}

\* non-root nodes with outgoing edges
InternalNodes == {n \in DOMAIN nodes : n # 0 /\ ~IsLeaf(n)}

Leaves == {n \in DOMAIN nodes : n # 0 /\ IsLeaf(n)}

\* the symbols an edge denotes, S[begin..end]
EdgeLabel(e) == Slice(seq, e.first_obj_index, e.last_obj_index + 1)

\* every node reachable from n with the label of its path, given n's label
RECURSIVE Walks(_, _)
Walks(n, label) ==
    {<<n, label>>} \cup
    UNION {Walks(edges[k].dest_node_index, label \o EdgeLabel(edges[k])) :
             k \in Children(n)}

NodeLabels == Walks(0, <<>>)

\* the non-empty strings spelled from n downward, stopping anywhere inside
\* an edge, leaf edges being read up to position p only
RECURSIVE SpelledFrom(_, _, _)
SpelledFrom(n, label, p) ==
    UNION {LET e == edges[k]
               top == IF IsLeaf(e.dest_node_index)
                      THEN Min(e.last_obj_index, p) ELSE e.last_obj_index
               lab == Slice(seq, e.first_obj_index, top + 1)
           IN  {label \o SubSeq(lab, 1, m) : m \in 1..Len(lab)}
               \cup SpelledFrom(e.dest_node_index, label \o lab, p)
           : k \in Children(n)}

\* the non-empty contiguous subsequences of s
Substrings(s) == {SubSeq(s, a, b) : a \in 1..Len(s), b \in 1..Len(s)} \ {<<>>}

IsSubstring(p, s) == p \in Substrings(s)

\* the last symbol of s occurs nowhere else in s
UniqueTerminal(s) ==
    /\ Len(s) >= 1
    /\ \A k \in 1..(Len(s) - 1) : s[k] # s[Len(s)]


\* ------------------------------------------------------- properties
\* the label of the root path of node n
LabelOf(n) == (CHOOSE p \in NodeLabels : p[1] = n)[2]

\* C1: for every non-empty contiguous subsequence P of S, find_substring(P)
\* returns, without raising, an index idx # -1 with S[idx : idx+len(P)] = P
C1_FindsEverySubstring ==
    (/\ query.op = "find_substring"
     /\ query.pat # <<>>
     /\ IsSubstring(query.pat, seq))
    => /\ query.exc = "None"
       /\ query.idx # -1
       /\ Slice(seq, query.idx, query.idx + Len(query.pat)) = query.pat

\* C2: for every non-empty P that does not occur in S, find_substring(P)
\* returns -1 as a normal result and has_substring(P) returns False
C2_AbsentIsNotFound ==
    (/\ query.op \in {"find_substring", "has_substring"}
     /\ query.pat # <<>>
     /\ ~IsSubstring(query.pat, seq))
    => /\ query.exc = "None"
       /\ query.op = "find_substring" => query.idx = -1
       /\ query.op = "has_substring" => ~query.found

\* C3: when the last symbol of S occurs nowhere else, the built tree has
\* exactly L leaves and every suffix S[j..L-1] is the label of exactly one
\* root-to-leaf path
C3_OneLeafPerSuffix ==
    (pc = "done" /\ UniqueTerminal(seq))
    => /\ Cardinality(Leaves) = Len(seq)
       /\ \A j \in 0..(Len(seq) - 1) :
             Cardinality({p \in NodeLabels :
                            p[1] \in Leaves /\ p[2] = Slice(seq, j, Len(seq))}) = 1

C3_Witness ==
    /\ pc = "done"
    /\ UniqueTerminal(seq)
    /\ Len(seq) >= 4
    /\ InternalNodes # {}

\* C4 as stated: for every non-empty S of length L the built tree has fewer
\* than 2*L nodes and fewer than 2*L edges
C4_Original ==
    (pc = "done" /\ Len(seq) >= 1)
    => /\ NumNodes(nodes) < 2 * Len(seq)
       /\ Cardinality(DOMAIN edges) < 2 * Len(seq)

\* C4 amended: for every non-empty S of length L the built tree has fewer
\* than 2*L edges and at most 2*L nodes, and fewer than 2*L nodes when L >= 2
C4_LinearBound ==
    (pc = "done" /\ Len(seq) >= 1)
    => /\ Cardinality(DOMAIN edges) < 2 * Len(seq)
       /\ NumNodes(nodes) <= 2 * Len(seq)
       /\ Len(seq) >= 2 => NumNodes(nodes) < 2 * Len(seq)

C4_Witness ==
    /\ pc = "done"
    /\ Len(seq) >= 3
    /\ NumNodes(nodes) = 2 * Len(seq) - 1

\* C5: with an empty pattern find_substring returns -1 without raising and
\* has_substring returns False, on the tree of any sequence
C5_EmptyPatternNotFound ==
    (query.op # "none" /\ query.pat = <<>>)
    => /\ query.exc = "None"
       /\ query.op = "find_substring" => query.idx = -1
       /\ query.op = "has_substring" => ~query.found

C5_Witness ==
    /\ query.op = "find_substring"
    /\ query.pat = <<>>
    /\ seq = <<>>
    /\ query.idx = -1

\* C6: building from the empty sequence raises nothing and runs no phase:
\* one node (the root, without suffix link), no edge, and the active point
\* at its initial explicit value (root, 0, -1)
C6_EmptySequence ==
    Len(seq) = 0
    => /\ pc \in {"loop", "done"}
       /\ err = "None"
       /\ DOMAIN nodes = {0}
       /\ nodes[0] = -1
       /\ DOMAIN edges = {}
       /\ active = Suffix(0, 0, -1)

C6_Witness == pc = "done" /\ Len(seq) = 0

\* C7: after _add_prefix(p) returns, the non-empty strings spelled from the
\* root (leaf edges read up to p) are exactly the non-empty contiguous
\* subsequences of S[0..p]
C7_SpellsAllSubstrings ==
    (pc \in {"loop", "done"} /\ i >= 1)
    => SpelledFrom(0, <<>>, i - 1) = Substrings(Slice(seq, 0, i))

\* a phase ended by the shortcut, leaving suffixes implicit
C7_Witness ==
    /\ pc = "loop"
    /\ i >= 3
    /\ i < Len(seq)
    /\ implicit(active)
    /\ InternalNodes # {}

\* the internal node created last
MostRecentInternal ==
    IF InternalNodes = {} THEN -1
    ELSE CHOOSE n \in InternalNodes : \A m \in InternalNodes : m <= n

\* the suffix link of n leads to the node labelled with n's label less its
\* first symbol
LinkResolved(n) ==
    \E m \in DOMAIN nodes :
       /\ nodes[n] = m
       /\ <<m, Tail(LabelOf(n))>> \in NodeLabels

\* C8: at the end of every phase every internal node, except possibly the
\* one created last, has its suffix link resolved
C8_SuffixLinksResolved ==
    pc \in {"loop", "done"}
    => \A n \in InternalNodes \ {MostRecentInternal} : LinkResolved(n)

C8_Witness ==
    /\ pc = "loop"
    /\ Cardinality(InternalNodes) >= 3
    /\ \E n \in InternalNodes : nodes[n] # 0

\* C9: every edge-table entry under key (n, c) holds an edge with source n
\* and leading symbol c, and no _insert_edge ever targets a present key
C9_EdgeKeys ==
    /\ ~collided
    /\ \A k \in DOMAIN edges :
          /\ edges[k].source_node_index = k[1]
          /\ InRange(edges[k].first_obj_index)
          /\ SeqAt(edges[k].first_obj_index) = k[2]

\* a split and a leaf insert have both happened at a non-root node
C9_Witness ==
    /\ pc = "ext"
    /\ last_parent_node > 0
    /\ Cardinality(Children(last_parent_node)) >= 2
    /\ Cardinality(DOMAIN edges) >= 5

\* the active point is canonical
Canonical(act) ==
    /\ act.source_node_index \in DOMAIN nodes
    /\ act.source_node_index = 0 \/ ~IsLeaf(act.source_node_index)
    /\ \/ explicit(act)
       \/ /\ InRange(act.first_obj_index)
          /\ LET key == <<act.source_node_index, SeqAt(act.first_obj_index)>>
             IN  /\ key \in DOMAIN edges
                 /\ Length(edges[key]) > Length(act)
                 /\ edges[key].first_obj_index + Length(act) + 1 \in 0..N

\* C10: whenever _canonize_suffix has returned the active point is
\* canonical, no edge lookup misses and no index is out of the sequence
C10_ActiveCanonical ==
    /\ err = "None"
    /\ pc # "error"
    /\ Canonical(active)

\* after an advance toward the root the canonical active point sits at a
\* non-root internal node
C10_Witness ==
    /\ pc = "ext"
    /\ last_parent_node > 0
    /\ active.source_node_index # 0
    /\ Canonical(active)

=============================================================================
